---- MODULE Spec2Model ----
(***************************************************************************)
(* Model of the resilient request subsystem of servicenow-playground:     *)
(* the retry/backoff loop of src/utils/retry.ts (shouldRetry,             *)
(* calculateDelay, sleep, withRetry).                                     *)
(*                                                                         *)
(* One call of withRetry(fn, options) is modelled.  The operation fn is   *)
(* the environment: each invocation either resolves with a value or       *)
(* rejects with an error object.  Optional values (undefined, a missing   *)
(* property) are modelled as sets of at most one element: {} is           *)
(* undefined, {v} is the value v.                                         *)
(*                                                                         *)
(* Delays are exact rationals; they are held as integers in units of      *)
(* 1/Scale millisecond so that the jitter term stays integral.            *)
(***************************************************************************)
EXTENDS Integers, Sequences, FiniteSets, TLC

VARIABLES
    options,      \* the RetryOptions argument of withRetry (fields optional)
    opts,         \* withRetry: const opts = {...DEFAULT_OPTIONS, ...options}
    attempt,      \* withRetry: loop counter
    lastError,    \* withRetry: let lastError
    delay,        \* withRetry: let delay (set while sleep(delay) is pending)
    pc,           \* position of the call: "invoke", "sleep", "returned", "thrown"
    returned,     \* the value withRetry resolved with
    thrown,       \* the error withRetry rejected with
    invocations,  \* history: number of times fn has been invoked
    delays,       \* history: number of delays computed and handed to sleep
    fnOutcome,    \* history: how the most recent invocation ended: "none", "ok", "err"
    fnError,      \* history: the error the most recent invocation raised
    fnValue,      \* history: the value the most recent invocation resolved with
    onlyRetryableStatus, \* history: every invocation so far failed with 429/5xx and no wait hint
    probe,        \* shouldRetry called on its own: <<statusCode, answer>>
    config,       \* config/env: the credentials the client reads
    client,       \* the ServiceNowClient: state, instanceUrl, authMode, authHeader
    call,         \* the client operation under way: method, url, body
    net,          \* history: HTTP calls issued and the Authorization values sent
    response,     \* history: the response to the most recent HTTP call
    queryProbe,   \* buildQueryString called on its own: params and result
    calls,        \* calls in flight at once on one client: the withRetry locals of each
    alone,        \* history: the locals each such call has when no other call runs
    server,       \* the remote incident table: the incident suggestArticles works on
    suggest       \* suggestArticles: position, locals and result of the call

\* the state of one withRetry call
retryVars == <<options, opts, attempt, lastError, delay, pc, returned, thrown,
               invocations, delays, fnOutcome, fnError, fnValue,
               onlyRetryableStatus, probe>>

\* the state of the client
clientVars == <<config, client, call, net, response, queryProbe, calls, alone,
                server, suggest>>

vars == <<options, opts, attempt, lastError, delay, pc, returned, thrown,
          invocations, delays, fnOutcome, fnError, fnValue,
          onlyRetryableStatus, probe,
          config, client, call, net, response, queryProbe, calls, alone,
          server, suggest>>

-----------------------------------------------------------------------------
(* Bounds of the model *)

\* Math.random() is drawn from {0/RandDen, ..., (RandDen-1)/RandDen}, a subset of [0, 1)
RandDen == 3

\* explicit options.maxAttempts range over 1..MaxAttemptsOption (besides being left unset)
MaxAttemptsOption == 3

\* wait hints (retryAfter, seconds) range over 0..MaxRetryAfter
MaxRetryAfter == 2

\* shouldRetry is probed on every status code in 0..MaxStatus
MaxStatus == 700

-----------------------------------------------------------------------------
(* Optional values *)

Some(v) == {v}

The(o) == CHOOSE v \in o : TRUE

Max(a, b) == IF a >= b THEN a ELSE b

RECURSIVE Pow(_, _)
Pow(b, n) == IF n = 0 THEN 1 ELSE b * Pow(b, n - 1)

\* delays are held in units of 1/Scale ms
Scale == 100 * RandDen

-----------------------------------------------------------------------------
(* RetryOptions and DEFAULT_OPTIONS *)

DEFAULT_OPTIONS ==
    [maxAttempts |-> 5, baseDelayMs |-> 500, factor |-> 2, jitterPercent |-> 15]

OptionValues ==
    [maxAttempts   : {{}} \cup {Some(n) : n \in 1..MaxAttemptsOption},
     baseDelayMs   : {{}, Some(100)},
     factor        : {{}, Some(3)},
     jitterPercent : {{}, Some(0), Some(150)}]

\* {...DEFAULT_OPTIONS, ...options}
MergeOptions(o) ==
    [k \in DOMAIN DEFAULT_OPTIONS |-> IF o[k] = {} THEN DEFAULT_OPTIONS[k] ELSE The(o[k])]

-----------------------------------------------------------------------------
(* The errors fn may raise.  statusCode, status and retryAfter are the      *)
(* properties withRetry probes; response is the parsed body a              *)
(* ServiceNowError carries; name tells an abort (cancellation) from any     *)
(* other error.  An error with neither statusCode nor status is a transport *)
(* failure, or any thrown value that is not such an object.                 *)

StatusCodes == {302, 400, 404, 429, 503}

Bodies == {"{}", "{error}"}

RetryAfterValues == {{}} \cup {Some(r) : r \in 0..MaxRetryAfter}

\* ServiceNowError: statusCode, response and optionally retryAfter
ApiErrors ==
    [statusCode : {Some(s) : s \in StatusCodes}, status : {{}},
     retryAfter : RetryAfterValues, response : Bodies, name : {"Error"}]

\* errors exposing the code as `status` only
StatusErrors ==
    [statusCode : {{}}, status : {Some(s) : s \in StatusCodes},
     retryAfter : RetryAfterValues, response : {"{}"}, name : {"Error"}]

\* errors with no status code at all: transport failures and aborts
PlainErrors ==
    [statusCode : {{}}, status : {{}},
     retryAfter : RetryAfterValues, response : {"{}"}, name : {"TypeError", "AbortError"}]

Errors == ApiErrors \cup StatusErrors \cup PlainErrors

Values == {"v1", "v2"}

-----------------------------------------------------------------------------
(* retry.ts *)

\* mutant: the upper end of the 5xx range is not checked
shouldRetry_NoUpperEnd(statusCode) ==
    statusCode = 429 \/ statusCode >= 500

\* mutant: every 4xx and 5xx code is retried
shouldRetry_ClientErrorsToo(statusCode) ==
    statusCode >= 400 /\ statusCode < 600

shouldRetry(statusCode) ==
    statusCode = 429 \/ (statusCode >= 500 /\ statusCode < 600)

\* mutant: a jitterPercent of 0 is taken for unset (jitterPercent || 15)
calculateDelay_ZeroJitterDefaulted(att, o, rn) ==
    LET exponentialDelay == o.baseDelayMs * Pow(o.factor, att - 1)
        jitterPercent == IF o.jitterPercent = 0 THEN 15 ELSE o.jitterPercent
        jitterAmountScaled == (2 * rn - RandDen) * exponentialDelay * jitterPercent
    IN  Max(0, exponentialDelay * Scale + jitterAmountScaled)

\* mutant: the exponent is the attempt number, not the attempt number less one
calculateDelay_ExponentAttempt(att, o, rn) ==
    LET exponentialDelay == o.baseDelayMs * Pow(o.factor, att)
        jitterAmountScaled == (2 * rn - RandDen) * exponentialDelay * o.jitterPercent
    IN  Max(0, exponentialDelay * Scale + jitterAmountScaled)

\* calculateDelay, with r = rn / RandDen the value of Math.random(); in 1/Scale ms
calculateDelay(att, o, rn) ==
    LET exponentialDelay == o.baseDelayMs * Pow(o.factor, att - 1)
        \* jitter = exponentialDelay * jitterPercent / 100
        \* jitterAmount = (r * 2 - 1) * jitter
        jitterAmountScaled == (2 * rn - RandDen) * exponentialDelay * o.jitterPercent
    IN  Max(0, exponentialDelay * Scale + jitterAmountScaled)

\* mutant: the `status` property is not looked at
ErrorStatusCode_StatusCodeOnly(error) == error.statusCode

\* withRetry, lines 69-79: the status code read off the error
ErrorStatusCode(error) ==
    IF error.statusCode # {} THEN error.statusCode
    ELSE IF error.status # {} THEN error.status
    ELSE {}

\* withRetry, lines 70-76: retryAfter is read only next to statusCode
ErrorRetryAfter(error) ==
    IF error.statusCode # {} THEN error.retryAfter ELSE {}

\* mutant: an error without a status code is rethrown at once too
NotRetryable_MissingStatusFatal(statusCode) ==
    statusCode = {} \/ ~shouldRetry(The(statusCode))

\* withRetry, line 82: the error is rethrown at once
NotRetryable(statusCode) ==
    statusCode # {} /\ ~shouldRetry(The(statusCode))

\* mutant: the loop gives up one attempt early
IsLastAttempt_OneEarly(att, o) == att + 1 >= o.maxAttempts

\* mutant: the last attempt is looked for one attempt late
IsLastAttempt_OneLate(att, o) == att = o.maxAttempts + 1

\* mutant: the last attempt is not told apart, so a delay follows it
IsLastAttempt_Never(att, o) == FALSE

\* withRetry, line 87: don't retry on last attempt
IsLastAttempt(att, o) == att = o.maxAttempts

\* mutant: the wait hint is honoured whatever the status code
NextDelay_HintForAnyStatus(statusCode, retryAfter, att, o, rn) ==
    IF retryAfter # {}
    THEN The(retryAfter) * 1000 * Scale
    ELSE calculateDelay(att, o, rn)

\* mutant: the wait hint is jittered like a backoff delay
NextDelay_JitteredHint(statusCode, retryAfter, att, o, rn) ==
    IF statusCode = Some(429) /\ retryAfter # {}
    THEN Max(0, The(retryAfter) * 1000 * Scale
                + (2 * rn - RandDen) * The(retryAfter) * 1000 * o.jitterPercent)
    ELSE calculateDelay(att, o, rn)

\* withRetry, lines 92-99: the delay before the next attempt; in 1/Scale ms
NextDelay(statusCode, retryAfter, att, o, rn) ==
    IF statusCode = Some(429) /\ retryAfter # {}
    THEN The(retryAfter) * 1000 * Scale
    ELSE calculateDelay(att, o, rn)

\* mutant: only the first error is kept
RecordError_KeepFirst(prev, error) == IF prev = {} THEN Some(error) ELSE prev

\* withRetry, line 66
RecordError(prev, error) == Some(error)

\* no client is involved: withRetry is called on its own
NoClient ==
    /\ config = <<>>
    /\ client = [state |-> "none"]
    /\ call = {}
    /\ net = [httpCalls |-> 0, sent |-> {}]
    /\ response = {}
    /\ queryProbe = <<>>
    /\ calls = <<>>
    /\ alone = <<>>
    /\ server = <<>>
    /\ suggest = <<>>

Init ==
    /\ NoClient
    /\ options \in OptionValues
    /\ opts = MergeOptions(options)
    /\ attempt = 1
    /\ lastError = {}
    /\ delay = {}
    /\ pc = "invoke"
    /\ returned = {}
    /\ thrown = {}
    /\ invocations = 0
    /\ delays = 0
    /\ fnOutcome = "none"
    /\ fnError = {}
    /\ fnValue = {}
    /\ onlyRetryableStatus = TRUE
    /\ probe = <<>>

\* mutant: the value is awaited but not returned, the loop goes on
FnResolves_NoReturn(v) ==
    /\ pc = "invoke"
    /\ attempt <= opts.maxAttempts
    /\ returned' = IF attempt = opts.maxAttempts THEN Some(v) ELSE returned
    /\ pc' = IF attempt = opts.maxAttempts THEN "returned" ELSE "invoke"
    /\ attempt' = IF attempt = opts.maxAttempts THEN attempt ELSE attempt + 1
    /\ invocations' = invocations + 1
    /\ fnOutcome' = "ok"
    /\ fnValue' = Some(v)
    /\ fnError' = {}
    /\ onlyRetryableStatus' = FALSE
    /\ UNCHANGED <<options, opts, lastError, delay, thrown, delays, probe>>
    /\ UNCHANGED clientVars

\* line 64: fn() resolves with v; withRetry returns v
withRetryResolves(v) ==
    /\ pc = "invoke"
    /\ attempt <= opts.maxAttempts
    /\ returned' = Some(v)
    /\ pc' = "returned"
    /\ invocations' = invocations + 1
    /\ fnOutcome' = "ok"
    /\ fnValue' = Some(v)
    /\ fnError' = {}
    /\ onlyRetryableStatus' = FALSE
    /\ UNCHANGED <<options, opts, attempt, lastError, delay, thrown, delays, probe>>

\* line 64: fn() is invoked and resolves; withRetry returns its value
FnResolves(v) ==
    /\ withRetryResolves(v)
    /\ UNCHANGED clientVars

\* lines 64-102 and 106: fn() rejects with error; the catch block runs
withRetryRejects(error, rn) ==
    /\ pc = "invoke"
    /\ attempt <= opts.maxAttempts
    /\ invocations' = invocations + 1
    /\ fnOutcome' = "err"
    /\ fnError' = Some(error)
    /\ fnValue' = {}
    /\ onlyRetryableStatus' =
          (/\ onlyRetryableStatus
           /\ error.statusCode \cup error.status # {}
           /\ error.statusCode \cup error.status \subseteq {429} \cup (500..599)
           /\ error.retryAfter = {})
    /\ lastError' = RecordError(lastError, error)
    /\ LET statusCode == ErrorStatusCode(error)
           retryAfter == ErrorRetryAfter(error)
       IN  IF NotRetryable(statusCode)
           THEN \* throw error
                /\ pc' = "thrown"
                /\ thrown' = Some(error)
                /\ UNCHANGED <<delay, delays>>
           ELSE IF IsLastAttempt(attempt, opts)
           THEN \* break; throw lastError
                /\ pc' = "thrown"
                /\ thrown' = lastError'
                /\ UNCHANGED <<delay, delays>>
           ELSE \* await sleep(delay)
                /\ delay' = Some(NextDelay(statusCode, retryAfter, attempt, opts, rn))
                /\ delays' = delays + 1
                /\ pc' = "sleep"
                /\ UNCHANGED thrown
    /\ UNCHANGED <<options, opts, attempt, returned, probe>>

\* lines 64-102 and 106: fn() is invoked and rejects with error; the catch block runs
FnRejects(error, rn) ==
    /\ withRetryRejects(error, rn)
    /\ UNCHANGED clientVars

\* lines 43-45, 101 and 62: the timer fires, the loop goes to the next attempt
SleepResolves ==
    /\ pc = "sleep"
    /\ pc' = "invoke"
    /\ attempt' = attempt + 1
    /\ delay' = {}
    /\ UNCHANGED <<options, opts, lastError, returned, thrown, invocations, delays,
                   fnOutcome, fnError, fnValue, onlyRetryableStatus, probe>>
    /\ UNCHANGED clientVars

Next ==
    \/ \E v \in Values : FnResolves(v)
    \/ \E error \in Errors, rn \in 0..(RandDen - 1) : FnRejects(error, rn)
    \/ SleepResolves

Spec == Init /\ [][Next]_vars

\* every invocation of fn and every timer wait completes
SpecFair == Spec /\ WF_vars(Next)

-----------------------------------------------------------------------------
(* shouldRetry called on its own, on every status code in 0..MaxStatus *)

InitClassify ==
    /\ Init
    /\ options = [k \in DOMAIN DEFAULT_OPTIONS |-> {}]

\* lines 24-28
Classify(statusCode) ==
    /\ probe' = <<statusCode, shouldRetry(statusCode)>>
    /\ UNCHANGED <<options, opts, attempt, lastError, delay, pc, returned, thrown,
                   invocations, delays, fnOutcome, fnError, fnValue,
                   onlyRetryableStatus>>
    /\ UNCHANGED clientVars

NextClassify == \E statusCode \in 0..MaxStatus : Classify(statusCode)

SpecClassify == InitClassify /\ [][NextClassify]_vars

-----------------------------------------------------------------------------
(* ServiceNowClient.  Strings are sequences of pieces: a literal of the     *)
(* source is one piece, caller data is one piece per character, and a       *)
(* percent-escape is one piece.                                             *)

RECURSIVE Concat(_)
\* the concatenation of a sequence of strings
Concat(ss) == IF ss = <<>> THEN <<>> ELSE Head(ss) \o Concat(Tail(ss))

RECURSIVE Join(_, _)
\* Array.prototype.join
Join(ss, sep) ==
    IF ss = <<>> THEN <<>>
    ELSE IF Len(ss) = 1 THEN Head(ss)
    ELSE Head(ss) \o <<sep>> \o Join(Tail(ss), sep)

DigitChars == <<"0", "1", "2", "3", "4", "5", "6", "7", "8", "9">>

IsDigit(c) == \E i \in 1..10 : DigitChars[i] = c

DigitValue(c) == (CHOOSE i \in 1..10 : DigitChars[i] = c) - 1

RECURSIVE NatToString(_)
NatToString(n) ==
    IF n < 10 THEN <<DigitChars[n + 1]>>
    ELSE NatToString(n \div 10) \o <<DigitChars[(n % 10) + 1]>>

\* `${n}` for an integer n
NumberToString(n) == IF n < 0 THEN <<"-">> \o NatToString(0 - n) ELSE NatToString(n)

\* `${b}` for a boolean b
BooleanToString(b) == IF b THEN <<"true">> ELSE <<"false">>

\* `${x}` for an optional string: undefined is spelled out
Interpolate(o) == IF o = {} THEN "undefined" ELSE The(o)

\* !x for an optional string: undefined and "" are falsy
Falsy(o) == o = {} \/ o = Some("")

(* config/env.ts: AUTH_MODE and the credentials; any credential may be unset *)

FullConfig ==
    [AUTH_MODE |-> "basic",
     SERVICE_NOW_USER |-> Some("user"), SERVICE_NOW_PASSWORD |-> Some("password"),
     SERVICE_NOW_CLIENT_ID |-> Some("id"), SERVICE_NOW_CLIENT_SECRET |-> Some("secret"),
     SERVICE_NOW_API_KEY |-> Some("key")]

\* the values AUTH_MODE may hold: the three modes and one that is none of them
AuthModeValues == {"basic", "oauth", "apiKey", "token"}

\* the credentials each mode reads
ModeCredentials ==
    [m \in AuthModeValues |->
        CASE m = "basic"  -> {"SERVICE_NOW_USER", "SERVICE_NOW_PASSWORD"}
          [] m = "oauth"  -> {"SERVICE_NOW_CLIENT_ID", "SERVICE_NOW_CLIENT_SECRET"}
          [] m = "apiKey" -> {"SERVICE_NOW_API_KEY"}
          [] OTHER        -> {}]

\* for every mode: every credential set, or one credential of the mode unset or empty
Configs ==
    UNION {
        {[FullConfig EXCEPT !.AUTH_MODE = m]}
        \cup {[FullConfig EXCEPT !.AUTH_MODE = m, ![k] = {}] : k \in ModeCredentials[m]}
        \cup {[FullConfig EXCEPT !.AUTH_MODE = m, ![k] = Some("")] :
                k \in ModeCredentials[m] \ {"SERVICE_NOW_USER", "SERVICE_NOW_PASSWORD"}}
        : m \in AuthModeValues}

InstanceUrls == {<<"https://dev.service-now.com">>, <<"https://dev.service-now.com", "/">>}

\* Buffer.from(text).toString('base64'), kept symbolic
Base64Header(scheme, text) == [scheme |-> scheme, encoding |-> "base64", text |-> text]

PlainHeader(scheme, text) == [scheme |-> scheme, encoding |-> "none", text |-> text]

\* mutant: the oauth case checks the client id only
buildAuthHeader_SecretUnchecked(cfg, authMode) ==
    CASE authMode = "basic" ->
           [ok |-> TRUE,
            header |-> Base64Header("Basic", <<Interpolate(cfg.SERVICE_NOW_USER), ":",
                                               Interpolate(cfg.SERVICE_NOW_PASSWORD)>>)]
      [] authMode = "oauth" ->
           IF Falsy(cfg.SERVICE_NOW_CLIENT_ID)
           THEN [ok |-> FALSE,
                 error |-> "OAuth requires SERVICE_NOW_CLIENT_ID and SERVICE_NOW_CLIENT_SECRET"]
           ELSE [ok |-> TRUE,
                 header |-> Base64Header("Basic", <<Interpolate(cfg.SERVICE_NOW_CLIENT_ID), ":",
                                                    Interpolate(cfg.SERVICE_NOW_CLIENT_SECRET)>>)]
      [] authMode = "apiKey" ->
           IF Falsy(cfg.SERVICE_NOW_API_KEY)
           THEN [ok |-> FALSE, error |-> "API Key auth requires SERVICE_NOW_API_KEY"]
           ELSE [ok |-> TRUE,
                 header |-> PlainHeader("Bearer", <<Interpolate(cfg.SERVICE_NOW_API_KEY)>>)]
      [] OTHER -> [ok |-> FALSE, error |-> "Unsupported auth mode"]

\* ServiceNowClient.buildAuthHeader: the header, or the error thrown
buildAuthHeader(cfg, authMode) ==
    CASE authMode = "basic" ->
           [ok |-> TRUE,
            header |-> Base64Header("Basic", <<Interpolate(cfg.SERVICE_NOW_USER), ":",
                                               Interpolate(cfg.SERVICE_NOW_PASSWORD)>>)]
      [] authMode = "oauth" ->
           IF Falsy(cfg.SERVICE_NOW_CLIENT_ID) \/ Falsy(cfg.SERVICE_NOW_CLIENT_SECRET)
           THEN [ok |-> FALSE,
                 error |-> "OAuth requires SERVICE_NOW_CLIENT_ID and SERVICE_NOW_CLIENT_SECRET"]
           ELSE [ok |-> TRUE,
                 header |-> Base64Header("Basic", <<Interpolate(cfg.SERVICE_NOW_CLIENT_ID), ":",
                                                    Interpolate(cfg.SERVICE_NOW_CLIENT_SECRET)>>)]
      [] authMode = "apiKey" ->
           IF Falsy(cfg.SERVICE_NOW_API_KEY)
           THEN [ok |-> FALSE, error |-> "API Key auth requires SERVICE_NOW_API_KEY"]
           ELSE [ok |-> TRUE,
                 header |-> PlainHeader("Bearer", <<Interpolate(cfg.SERVICE_NOW_API_KEY)>>)]
      [] OTHER -> [ok |-> FALSE, error |-> "Unsupported auth mode"]

\* instanceUrl.replace(/\/$/, '')
StripTrailingSlash(url) ==
    IF url # <<>> /\ url[Len(url)] = "/" THEN SubSeq(url, 1, Len(url) - 1) ELSE url

\* new ServiceNowClient(instanceUrl, authMode): the client, or the error thrown
NewClient(cfg, instanceUrl, authMode) ==
    LET built == buildAuthHeader(cfg, authMode)
    IN  IF built.ok
        THEN [state |-> "ok", instanceUrl |-> StripTrailingSlash(instanceUrl),
              authMode |-> authMode, authHeader |-> built.header]
        ELSE [state |-> "failed", error |-> built.error, authMode |-> authMode]

(* buildQueryString *)

\* the characters encodeURIComponent escapes, among those the model uses
PercentEscapes == [c \in {">", ",", "=", "^", " "} |->
    CASE c = ">" -> "%3E" [] c = "," -> "%2C" [] c = "=" -> "%3D"
      [] c = "^" -> "%5E" [] c = " " -> "%20"]

RECURSIVE encodeURIComponent(_)
encodeURIComponent(str) ==
    IF str = <<>> THEN <<>>
    ELSE <<IF Head(str) \in DOMAIN PercentEscapes THEN PercentEscapes[Head(str)] ELSE Head(str)>>
         \o encodeURIComponent(Tail(str))

\* TableApiParams: every field optional
TableApiParams ==
    [sysparm_fields        : {{}, Some(<<>>), Some(<<"a", ",", "b">>)},
     sysparm_limit         : {{}, Some(0), Some(10)},
     sysparm_offset        : {{}, Some(0), Some(25)},
     sysparm_query         : {{}, Some(<<>>), Some(<<"a", ">", "b">>)},
     sysparm_display_value : {{}, Some(TRUE), Some(FALSE)}]

\* mutant: sysparm_display_value is pushed before sysparm_query
buildQueryString_DisplayValueEarly(params) ==
    LET queryParts ==
            (IF params.sysparm_fields # {} /\ The(params.sysparm_fields) # <<>>
             THEN << <<"sysparm_fields=">> \o encodeURIComponent(The(params.sysparm_fields)) >>
             ELSE <<>>)
         \o (IF params.sysparm_limit # {}
             THEN << <<"sysparm_limit=">> \o NumberToString(The(params.sysparm_limit)) >>
             ELSE <<>>)
         \o (IF params.sysparm_offset # {}
             THEN << <<"sysparm_offset=">> \o NumberToString(The(params.sysparm_offset)) >>
             ELSE <<>>)
         \o (IF params.sysparm_display_value # {}
             THEN << <<"sysparm_display_value=">>
                     \o BooleanToString(The(params.sysparm_display_value)) >>
             ELSE << <<"sysparm_display_value=", "false">> >>)
         \o (IF params.sysparm_query # {} /\ The(params.sysparm_query) # <<>>
             THEN << <<"sysparm_query=">> \o encodeURIComponent(The(params.sysparm_query)) >>
             ELSE <<>>)
    IN  IF Len(queryParts) > 0 THEN <<"?">> \o Join(queryParts, "&") ELSE <<>>

\* ServiceNowClient.buildQueryString
buildQueryString(params) ==
    LET queryParts ==
            (IF params.sysparm_fields # {} /\ The(params.sysparm_fields) # <<>>
             THEN << <<"sysparm_fields=">> \o encodeURIComponent(The(params.sysparm_fields)) >>
             ELSE <<>>)
         \o (IF params.sysparm_limit # {}
             THEN << <<"sysparm_limit=">> \o NumberToString(The(params.sysparm_limit)) >>
             ELSE <<>>)
         \o (IF params.sysparm_offset # {}
             THEN << <<"sysparm_offset=">> \o NumberToString(The(params.sysparm_offset)) >>
             ELSE <<>>)
         \o (IF params.sysparm_query # {} /\ The(params.sysparm_query) # <<>>
             THEN << <<"sysparm_query=">> \o encodeURIComponent(The(params.sysparm_query)) >>
             ELSE <<>>)
         \o (IF params.sysparm_display_value # {}
             THEN << <<"sysparm_display_value=">>
                     \o BooleanToString(The(params.sysparm_display_value)) >>
             ELSE << <<"sysparm_display_value=", "false">> >>)
    IN  IF Len(queryParts) > 0 THEN <<"?">> \o Join(queryParts, "&") ELSE <<>>

(* buildQueryString called on its own, on every params of TableApiParams *)

InitQuery ==
    /\ Init
    /\ options = [k \in DOMAIN DEFAULT_OPTIONS |-> {}]

BuildQuery(params) ==
    /\ queryProbe' = <<params, buildQueryString(params)>>
    /\ UNCHANGED retryVars
    /\ UNCHANGED <<config, client, call, net, response, calls, alone, server, suggest>>

NextQuery == \E params \in TableApiParams : BuildQuery(params)

SpecQuery == InitQuery /\ [][NextQuery]_vars

-----------------------------------------------------------------------------
(* ServiceNowClient.request and the four operations *)

\* the responses fetch may resolve with: status, body text, Retry-After header
ResponseStatuses == {101, 200, 302, 404, 429, 503, 600}

\* a body is JSON text, or text that response.json() rejects (such as an empty body)
ResponseBodies == {[json |-> TRUE, text |-> "{result}"], [json |-> FALSE, text |-> ""]}

RetryAfterHeaders ==
    {{}} \cup {Some(h) : h \in {<<>>, <<"2">>, <<"2", "s">>, <<"a", "b">>, <<"-", "1">>}}

\* every status with each body and no Retry-After header, and the retryable
\* statuses with every Retry-After header
Responses ==
    [status : ResponseStatuses, statusText : {"reason"}, body : ResponseBodies,
     retryAfter : {{}}]
    \cup [status : {429, 503}, statusText : {"reason"},
          body : {[json |-> TRUE, text |-> "{result}"]}, retryAfter : RetryAfterHeaders]

RECURSIVE SkipWhiteSpace(_)
SkipWhiteSpace(str) ==
    IF str # <<>> /\ Head(str) = " " THEN SkipWhiteSpace(Tail(str)) ELSE str

RECURSIVE DigitPrefix(_)
DigitPrefix(str) ==
    IF str # <<>> /\ IsDigit(Head(str)) THEN <<Head(str)>> \o DigitPrefix(Tail(str)) ELSE <<>>

RECURSIVE DigitsValue(_)
DigitsValue(digits) ==
    IF digits = <<>> THEN 0
    ELSE DigitsValue(SubSeq(digits, 1, Len(digits) - 1)) * 10 + DigitValue(digits[Len(digits)])

\* parseInt(str, 10): leading white space, a sign, then the longest run of digits;
\* {} is NaN
parseInt(str) ==
    LET trimmed  == SkipWhiteSpace(str)
        signed   == trimmed # <<>> /\ Head(trimmed) \in {"-", "+"}
        unsigned == IF signed THEN Tail(trimmed) ELSE trimmed
        digits   == DigitPrefix(unsigned)
    IN  IF digits = <<>> THEN {}
        ELSE IF signed /\ Head(trimmed) = "-" THEN Some(0 - DigitsValue(digits))
        ELSE Some(DigitsValue(digits))

\* response.ok
ResponseOk(resp) == resp.status >= 200 /\ resp.status <= 299

\* mutant: the rejection of response.json() is not caught, the raw text is kept
ParsedBody_RawText(resp) == resp.body.text

\* await response.json().catch(() => ({}))
ParsedBody(resp) == IF resp.body.json THEN resp.body.text ELSE "{}"

\* lines 135-142: the retryAfter property set on the error
RetryAfterOf(resp) ==
    IF resp.retryAfter # {} /\ The(resp.retryAfter) # <<>>
    THEN parseInt(The(resp.retryAfter))
    ELSE {}

\* makeRequest, after fetch resolved with resp: the data returned or the error thrown
makeRequest(resp) ==
    IF ~ResponseOk(resp)
    THEN [ok |-> FALSE,
          error |-> [message |-> <<"ServiceNow API error: ">> \o NumberToString(resp.status)
                                    \o <<" ", resp.statusText>>,
                     statusCode |-> Some(resp.status), status |-> {},
                     retryAfter |-> RetryAfterOf(resp), response |-> ParsedBody(resp),
                     name |-> "Error"]]
    ELSE [ok |-> TRUE, data |-> ParsedBody(resp)]

\* the error fetch rejects with when no response is obtained
TransportError ==
    [message |-> <<"fetch failed">>, statusCode |-> {}, status |-> {}, retryAfter |-> {},
     response |-> "{}", name |-> "TypeError"]

Tables == {<<"incident">>}

SysIds == {<<"4", "2">>}

\* a payload: field name to value
Payloads == {[short_description |-> <<"printer">>]}

\* the params getTable is called with
GetTableParams ==
    {[sysparm_fields |-> {}, sysparm_limit |-> Some(10), sysparm_offset |-> {},
      sysparm_query |-> Some(<<"a", ">", "b">>), sysparm_display_value |-> {}]}

\* mutant: the header is built again from the configuration for every request
AuthorizationSent_Rebuilt(cl, cfg) == buildAuthHeader(cfg, cl.authMode).header

\* line 118: the Authorization header of a request
AuthorizationSent(cl, cfg) == cl.authHeader

\* mutant: DELETE is run with a single attempt
RequestOptions_DeleteOnce(method) ==
    [k \in DOMAIN DEFAULT_OPTIONS |->
        IF k = "maxAttempts" /\ method = "DELETE" THEN Some(1) ELSE {}]

\* line 150: withRetry(makeRequest) is given no options, whatever the method
RequestOptions(method) == [k \in DOMAIN DEFAULT_OPTIONS |-> {}]

InitClient ==
    /\ config \in Configs
    /\ client = [state |-> "none"]
    /\ call = {}
    /\ net = [httpCalls |-> 0, sent |-> {}]
    /\ response = {}
    /\ queryProbe = <<>>
    /\ calls = <<>>
    /\ alone = <<>>
    /\ server = <<>>
    /\ suggest = <<>>
    /\ options = [k \in DOMAIN DEFAULT_OPTIONS |-> {}]
    /\ opts = MergeOptions(options)
    /\ attempt = 1
    /\ lastError = {}
    /\ delay = {}
    /\ pc = "idle"
    /\ returned = {}
    /\ thrown = {}
    /\ invocations = 0
    /\ delays = 0
    /\ fnOutcome = "none"
    /\ fnError = {}
    /\ fnValue = {}
    /\ onlyRetryableStatus = TRUE
    /\ probe = <<>>

\* lines 35-42: new ServiceNowClient(instanceUrl), authMode = config.AUTH_MODE
Construct(instanceUrl) ==
    /\ client.state = "none"
    /\ client' = NewClient(config, instanceUrl, config.AUTH_MODE)
    /\ UNCHANGED retryVars
    /\ UNCHANGED <<config, call, net, response, queryProbe, calls, alone, server, suggest>>

\* the environment: the credentials of the configuration are replaced
RotateCredentials ==
    /\ client.state = "ok"
    /\ \A k \in ModeCredentials[config.AUTH_MODE] : config[k] = FullConfig[k]
    /\ config' = [config EXCEPT !.SERVICE_NOW_PASSWORD = Some("rotated"),
                                !.SERVICE_NOW_CLIENT_SECRET = Some("rotated"),
                                !.SERVICE_NOW_API_KEY = Some("rotated")]
    /\ UNCHANGED retryVars
    /\ UNCHANGED <<client, call, net, response, queryProbe, calls, alone, server, suggest>>

\* lines 109-113 and 150, 59-62: request(method, url, body) enters withRetry(makeRequest)
StartRequest(method, url, body, log) ==
    /\ client.state = "ok"
    /\ pc \in {"idle", "returned", "thrown"}
    /\ call' = Some([method |-> method, url |-> url, body |-> body, log |-> log])
    /\ net' = [net EXCEPT !.httpCalls = 0]
    /\ response' = {}
    /\ attempt' = 1
    /\ lastError' = {}
    /\ delay' = {}
    /\ pc' = "invoke"
    /\ returned' = {}
    /\ thrown' = {}
    /\ invocations' = 0
    /\ delays' = 0
    /\ fnOutcome' = "none"
    /\ fnError' = {}
    /\ fnValue' = {}
    /\ onlyRetryableStatus' = TRUE
    /\ options' = RequestOptions(method)
    /\ opts' = MergeOptions(options')
    /\ UNCHANGED <<probe, config, client, queryProbe, calls, alone, server, suggest>>

\* mutant: the debug message spells out the request headers too
DebugMessage_WithAuthorization(cl, method, url) ==
    <<method, " ">> \o url
    \o <<" Authorization: ", cl.authHeader.scheme, " ", cl.authHeader.encoding>>
    \o cl.authHeader.text

\* lines 161, 173, 186, 195: the message handed to logger.debug
DebugMessage(cl, method, url) == <<method, " ">> \o url

\* line 173: { ...payload, password: '***REDACTED***' }
RedactPassword(payload) ==
    [k \in DOMAIN payload \cup {"password"} |->
        IF k = "password" THEN <<"***REDACTED***">> ELSE payload[k]]

\* lines 156-163
getTable(table, params) ==
    LET url == client.instanceUrl \o <<"/api/now/table/">> \o table
               \o buildQueryString(params)
    IN  StartRequest("GET", url, {},
                     [message |-> DebugMessage(client, "GET", url),
                      meta |-> [table |-> table, params |-> params]])

\* lines 168-175
create(table, payload) ==
    LET url == client.instanceUrl \o <<"/api/now/table/">> \o table
    IN  StartRequest("POST", url, Some(payload),
                     [message |-> DebugMessage(client, "POST", url),
                      meta |-> [table |-> table, payload |-> RedactPassword(payload)]])

\* lines 180-188
patch(table, sysId, payload) ==
    LET url == client.instanceUrl \o <<"/api/now/table/">> \o table \o <<"/">> \o sysId
    IN  StartRequest("PATCH", url, Some(payload),
                     [message |-> DebugMessage(client, "PATCH", url),
                      meta |-> [table |-> table, sysId |-> sysId, payload |-> payload]])

\* lines 193-197
del(table, sysId) ==
    LET url == client.instanceUrl \o <<"/api/now/table/">> \o table \o <<"/">> \o sysId
    IN  StartRequest("DELETE", url, {},
                     [message |-> DebugMessage(client, "DELETE", url),
                      meta |-> [table |-> table, sysId |-> sysId]])

\* lines 91-99: Math.random() is called only when calculateDelay is; otherwise
\* there is no draw (written as the single draw 0)
RandomDraws(outcome) ==
    IF outcome.ok THEN {0}
    ELSE LET statusCode == ErrorStatusCode(outcome.error)
             retryAfter == ErrorRetryAfter(outcome.error)
         IN  IF \/ NotRetryable(statusCode)
                \/ IsLastAttempt(attempt, opts)
                \/ (statusCode = Some(429) /\ retryAfter # {})
             THEN {0}
             ELSE 0..(RandDen - 1)

\* lines 114-148 inside withRetry: one attempt; fetch resolves with resp
HttpResponds(resp, rn) ==
    /\ client.state = "ok"
    /\ call # {}
    /\ net' = [httpCalls |-> net.httpCalls + 1,
               sent |-> net.sent \cup {AuthorizationSent(client, config)}]
    /\ response' = Some(resp)
    /\ LET out == makeRequest(resp)
       IN  IF out.ok THEN withRetryResolves(out.data) ELSE withRetryRejects(out.error, rn)
    /\ UNCHANGED <<config, client, call, queryProbe, calls, alone, server, suggest>>

\* lines 115-124 inside withRetry: one attempt; fetch rejects, no response is obtained
FetchFails(rn) ==
    /\ client.state = "ok"
    /\ call # {}
    /\ net' = [httpCalls |-> net.httpCalls + 1,
               sent |-> net.sent \cup {AuthorizationSent(client, config)}]
    /\ response' = {}
    /\ withRetryRejects(TransportError, rn)
    /\ UNCHANGED <<config, client, call, queryProbe, calls, alone, server, suggest>>

NextClient ==
    \/ \E instanceUrl \in InstanceUrls : Construct(instanceUrl)
    \/ RotateCredentials
    \/ \E table \in Tables, params \in GetTableParams : getTable(table, params)
    \/ \E table \in Tables, payload \in Payloads : create(table, payload)
    \/ \E table \in Tables, sysId \in SysIds, payload \in Payloads : patch(table, sysId, payload)
    \/ \E table \in Tables, sysId \in SysIds : del(table, sysId)
    \/ \E resp \in Responses : \E rn \in RandomDraws(makeRequest(resp)) :
          HttpResponds(resp, rn)
    \/ \E rn \in RandomDraws([ok |-> FALSE, error |-> TransportError]) : FetchFails(rn)
    \/ SleepResolves

SpecClient == InitClient /\ [][NextClient]_vars

-----------------------------------------------------------------------------
(* Several calls in flight at once on the one exported client.  Every call  *)
(* of request runs its own invocation of withRetry; the locals of that      *)
(* invocation (opts, lastError, attempt) are kept per call in `calls`.      *)
(* `alone` runs the same code for each call in a world where it is the only *)
(* call, fed the very responses the call receives.                          *)

\* the callers of the exported servicenowClient
Calls == {"c1", "c2"}

ConcurrentMethods == {"GET", "POST"}

\* what an attempt of a concurrent call may end with
ConcurrentOutcomes ==
    {makeRequest([status |-> st, statusText |-> "reason",
                  body |-> [json |-> TRUE, text |-> "{result}"],
                  retryAfter |-> {}]) : st \in {200, 404, 503}}
    \cup {[ok |-> FALSE, error |-> TransportError]}

\* a caller that has not called yet
NotCalled ==
    [pc |-> "idle", method |-> "none", opts |-> DEFAULT_OPTIONS, attempt |-> 0,
     lastError |-> {}, delay |-> {}, returned |-> {}, thrown |-> {}, invocations |-> 0]

\* retry.ts lines 59-62: the locals of one invocation of withRetry
NewLocals(method) ==
    [pc |-> "invoke", method |-> method, opts |-> MergeOptions(RequestOptions(method)),
     attempt |-> 1, lastError |-> {}, delay |-> {}, returned |-> {}, thrown |-> {},
     invocations |-> 0]

\* mutant: the loop counter is one variable shared by every invocation
AttemptOf_Shared(cs, c) ==
    CHOOSE m \in {cs[d].attempt : d \in DOMAIN cs} :
        \A d \in DOMAIN cs : m >= cs[d].attempt

\* retry.ts line 62: `let attempt` is declared by the loop of the invocation
AttemptOf(cs, c) == cs[c].attempt

\* retry.ts line 60: `let lastError` is declared inside withRetry
LastErrorOf(cs, c) == cs[c].lastError

\* retry.ts line 64: fn() resolves with v; the invocation returns v
LocalsAfterResolve(cs, c, v) ==
    [cs[c] EXCEPT !.pc = "returned", !.returned = Some(v), !.invocations = @ + 1]

\* retry.ts lines 65-102 and 106: fn() rejects with error; the catch block runs
LocalsAfterReject(cs, c, error, rn) ==
    LET own        == cs[c]
        statusCode == ErrorStatusCode(error)
        retryAfter == ErrorRetryAfter(error)
        recorded   == RecordError(LastErrorOf(cs, c), error)
    IN  IF NotRetryable(statusCode)
        THEN [own EXCEPT !.pc = "thrown", !.thrown = Some(error),
                         !.lastError = recorded, !.invocations = @ + 1]
        ELSE IF IsLastAttempt(AttemptOf(cs, c), own.opts)
        THEN [own EXCEPT !.pc = "thrown", !.thrown = recorded,
                         !.lastError = recorded, !.invocations = @ + 1]
        ELSE [own EXCEPT !.pc = "sleep",
                         !.delay = Some(NextDelay(statusCode, retryAfter,
                                                  AttemptOf(cs, c), own.opts, rn)),
                         !.lastError = recorded, !.invocations = @ + 1]

\* retry.ts lines 43-45, 101 and 62: the timer fires, the loop goes on
LocalsAfterSleep(cs, c) ==
    [cs[c] EXCEPT !.pc = "invoke", !.attempt = AttemptOf(cs, c) + 1, !.delay = {}]

\* the world in which call c is the only call
OnlyCall(as, c) == [d \in {c} |-> as[d]]

\* Math.random() is called only when calculateDelay is
ConcurrentDraws(c, outcome) ==
    IF outcome.ok THEN {0}
    ELSE IF \/ NotRetryable(ErrorStatusCode(outcome.error))
            \/ IsLastAttempt(AttemptOf(calls, c), calls[c].opts)
    THEN {0}
    ELSE 0..(RandDen - 1)

InitConcurrent ==
    /\ config = FullConfig
    /\ client = NewClient(config, <<"https://dev.service-now.com">>, config.AUTH_MODE)
    /\ call = {}
    /\ net = [httpCalls |-> 0, sent |-> {}]
    /\ response = {}
    /\ queryProbe = <<>>
    /\ calls = [c \in Calls |-> NotCalled]
    /\ alone = [c \in Calls |-> NotCalled]
    /\ server = <<>>
    /\ suggest = <<>>
    /\ options = [k \in DOMAIN DEFAULT_OPTIONS |-> {}]
    /\ opts = MergeOptions(options)
    /\ attempt = 1
    /\ lastError = {}
    /\ delay = {}
    /\ pc = "idle"
    /\ returned = {}
    /\ thrown = {}
    /\ invocations = 0
    /\ delays = 0
    /\ fnOutcome = "none"
    /\ fnError = {}
    /\ fnValue = {}
    /\ onlyRetryableStatus = TRUE
    /\ probe = <<>>

\* part_000 lines 109-113 and 150: caller c calls an operation of the client
CallStarts(c, method) ==
    /\ client.state = "ok"
    /\ calls[c].pc = "idle"
    /\ calls' = [calls EXCEPT ![c] = NewLocals(method)]
    /\ alone' = [alone EXCEPT ![c] = NewLocals(method)]
    /\ UNCHANGED retryVars
    /\ UNCHANGED <<config, client, call, net, response, queryProbe, server, suggest>>

\* part_000 lines 114-148 inside withRetry: the pending attempt of call c ends
CallAttemptEnds(c, outcome, rn) ==
    /\ client.state = "ok"
    /\ calls[c].pc = "invoke"
    /\ net' = [httpCalls |-> net.httpCalls + 1,
               sent |-> net.sent \cup {AuthorizationSent(client, config)}]
    /\ calls' = [calls EXCEPT ![c] =
                    IF outcome.ok THEN LocalsAfterResolve(calls, c, outcome.data)
                    ELSE LocalsAfterReject(calls, c, outcome.error, rn)]
    /\ alone' = [alone EXCEPT ![c] =
                    IF outcome.ok THEN LocalsAfterResolve(OnlyCall(alone, c), c, outcome.data)
                    ELSE LocalsAfterReject(OnlyCall(alone, c), c, outcome.error, rn)]
    /\ UNCHANGED retryVars
    /\ UNCHANGED <<config, client, call, response, queryProbe, server, suggest>>

\* retry.ts lines 43-45: the backoff timer of call c fires
CallSleepResolves(c) ==
    /\ calls[c].pc = "sleep"
    /\ calls' = [calls EXCEPT ![c] = LocalsAfterSleep(calls, c)]
    /\ alone' = [alone EXCEPT ![c] = LocalsAfterSleep(OnlyCall(alone, c), c)]
    /\ UNCHANGED retryVars
    /\ UNCHANGED <<config, client, call, net, response, queryProbe, server, suggest>>

NextConcurrent ==
    \/ \E c \in Calls, method \in ConcurrentMethods : CallStarts(c, method)
    \/ \E c \in Calls, outcome \in ConcurrentOutcomes :
          \E rn \in ConcurrentDraws(c, outcome) : CallAttemptEnds(c, outcome, rn)
    \/ \E c \in Calls : CallSleepResolves(c)

SpecConcurrent == InitConcurrent /\ [][NextConcurrent]_vars

-----------------------------------------------------------------------------
(* kb.ts: suggestArticles.  A text is the sequence of its words (what       *)
(* split(/\s+/) yields), a word the sequence of its characters.  Work notes  *)
(* are a sequence of pieces: the marker literal is one piece.  Each call of  *)
(* the client is taken with its outcome: the data it resolves with, or the   *)
(* error withRetry throws in the end.                                        *)

\* the number of suggestArticles calls made on the incident
MaxSuggestCalls == 3

\* kb.ts line 117
Marker == "[cursor_suggested]"

WordChars ==
    {"a", "d", "e", "f", "h", "i", "n", "o", "r", "t", "u", "w", "y", "D", "W", "_", "4"}

\* String.prototype.toLowerCase, on the capitals of the sample texts
ToLowerChar(c) == CASE c = "W" -> "w" [] c = "D" -> "d" [] OTHER -> c

ToLowerCase(word) == [i \in 1..Len(word) |-> ToLowerChar(word[i])]

\* word.replace(/[^\w]/g, '')
RECURSIVE StripNonWord(_)
StripNonWord(word) ==
    IF word = <<>> THEN <<>>
    ELSE IF Head(word) \in WordChars THEN <<Head(word)>> \o StripNonWord(Tail(word))
    ELSE StripNonWord(Tail(word))

\* kb.ts line 26: the stop list
StopWords ==
    {<<"t", "h", "e">>, <<"a", "n", "d">>, <<"f", "o", "r">>, <<"a", "r", "e">>,
     <<"b", "u", "t">>, <<"n", "o", "t">>, <<"y", "o", "u">>, <<"a", "l", "l">>,
     <<"c", "a", "n">>, <<"h", "e", "r">>, <<"w", "a", "s">>, <<"o", "n", "e">>,
     <<"o", "u", "r">>, <<"o", "u", "t">>, <<"d", "a", "y">>, <<"g", "e", "t">>,
     <<"h", "a", "s">>, <<"h", "i", "m">>, <<"h", "i", "s">>, <<"h", "o", "w">>,
     <<"i", "t", "s">>, <<"m", "a", "y">>, <<"n", "e", "w">>, <<"n", "o", "w">>,
     <<"o", "l", "d">>, <<"s", "e", "e">>, <<"t", "w", "o">>, <<"w", "h", "o">>,
     <<"w", "a", "y">>, <<"u", "s", "e">>, <<"s", "h", "e">>, <<"y", "o", "u", "r">>,
     <<"t", "h", "e", "i", "r">>}

\* Array.from(new Set(words)): the first occurrence of each word is kept
RECURSIVE Unique(_)
Unique(words) ==
    IF words = <<>> THEN <<>>
    ELSE LET init == Unique(SubSeq(words, 1, Len(words) - 1))
             last == words[Len(words)]
         IN  IF \E i \in 1..Len(init) : init[i] = last THEN init ELSE Append(init, last)

\* kb.ts lines 19-30
extractKeywords(text) ==
    LET stripped == [i \in 1..Len(text) |-> StripNonWord(ToLowerCase(text[i]))]
        long(word) == Len(word) > 3
        notStop(word) == word \notin StopWords
    IN  Unique(SelectSeq(SelectSeq(stripped, long), notStop))

\* kb.ts lines 35-47
buildKBQuery(keywords) ==
    IF Len(keywords) = 0 THEN <<>>
    ELSE LET first == SubSeq(keywords, 1, IF Len(keywords) < 5 THEN Len(keywords) ELSE 5)
             conditions == [i \in 1..Len(first) |->
                              <<"short_descriptionLIKE">> \o first[i]
                              \o <<"^ORtextLIKE">> \o first[i]]
         IN  Join(conditions, "^OR")

\* String.prototype.trim on pieces: white-space pieces at both ends are dropped
RECURSIVE TrimStart(_)
TrimStart(str) ==
    IF str # <<>> /\ Head(str) \in {" ", "\n"} THEN TrimStart(Tail(str)) ELSE str

RECURSIVE TrimEnd(_)
TrimEnd(str) ==
    IF str # <<>> /\ str[Len(str)] \in {" ", "\n"}
    THEN TrimEnd(SubSeq(str, 1, Len(str) - 1)) ELSE str

Trim(str) == TrimEnd(TrimStart(str))

\* existingNotes.includes(marker)
IncludesMarker(notes) == \E i \in 1..Len(notes) : notes[i] = Marker

\* mutant: the marker is appended whether or not the notes hold it already
UpdatedNotes_AlwaysAppend(existingNotes) == Trim(existingNotes \o <<"\n", Marker>>)

\* kb.ts lines 128-130
UpdatedNotes(existingNotes) ==
    IF IncludesMarker(existingNotes) THEN existingNotes
    ELSE Trim(existingNotes \o <<"\n", Marker>>)

\* sample words
Wifi == <<"W", "i", "f", "i">>

DownBang == <<"d", "o", "w", "n", "!">>

\* the descriptions of the incident: none, stop words and short words only, or
\* words that give keywords (one of them twice)
IncidentTexts ==
    {[short_description |-> <<>>, description |-> {}],
     [short_description |-> << <<"t", "h", "e">>, <<"y", "o", "u", "r">> >>,
      description |-> Some(<<>>)],
     [short_description |-> <<Wifi, DownBang>>, description |-> Some(<<ToLowerCase(Wifi)>>)]}

\* the work notes of the incident before any call
WorkNotes == {{}, Some(<<>>), Some(<<"rebooted">>), Some(<<"rebooted", "\n", Marker>>)}

\* the u_cursor_suggested field: not a field of the table, or a boolean
CustomFields == {{}, Some(FALSE)}

\* the rows of the incident table with the sys_id asked for: none, or one
Incidents ==
    {{}} \cup
    {Some([short_description |-> t.short_description, description |-> t.description,
           work_notes |-> w, u_cursor_suggested |-> u]) :
        t \in IncidentTexts, w \in WorkNotes, u \in CustomFields}

\* what the kb_knowledge query may resolve with
KbResults == {<<>>, <<"KB1">>, <<"KB1", "KB2">>}

\* the errors a client call may reject with, once withRetry gives up
ClientFailures ==
    {makeRequest([status |-> st, statusText |-> "reason",
                  body |-> [json |-> TRUE, text |-> "{result}"],
                  retryAfter |-> {}]).error : st \in {404, 503}}
    \cup {TransportError}

\* suggestArticles is not running
NotSuggesting ==
    [pc |-> "idle", keywords |-> <<>>, query |-> <<>>, kbResult |-> <<>>,
     patchBody |-> <<>>, returned |-> {}, thrown |-> {}, markError |-> {},
     started |-> 0, marked |-> 0]

\* mutant: the inner catch block throws the error again
AfterMarkFailure_Rethrown(sg, error) ==
    [sg EXCEPT !.pc = "thrown", !.thrown = Some(error), !.markError = Some(error)]

\* kb.ts lines 138-144: the failure is logged; the articles are returned
AfterMarkFailure(sg, error) ==
    [sg EXCEPT !.pc = "returned", !.returned = Some(sg.kbResult),
               !.markError = Some(error)]

InitSuggest ==
    /\ config = FullConfig
    /\ client = NewClient(config, <<"https://dev.service-now.com">>, config.AUTH_MODE)
    /\ call = {}
    /\ net = [httpCalls |-> 0, sent |-> {}]
    /\ response = {}
    /\ queryProbe = <<>>
    /\ calls = <<>>
    /\ alone = <<>>
    /\ server \in [incident : Incidents]
    /\ suggest = NotSuggesting
    /\ options = [k \in DOMAIN DEFAULT_OPTIONS |-> {}]
    /\ opts = MergeOptions(options)
    /\ attempt = 1
    /\ lastError = {}
    /\ delay = {}
    /\ pc = "idle"
    /\ returned = {}
    /\ thrown = {}
    /\ invocations = 0
    /\ delays = 0
    /\ fnOutcome = "none"
    /\ fnError = {}
    /\ fnValue = {}
    /\ onlyRetryableStatus = TRUE
    /\ probe = <<>>

\* lines 52-65: suggestArticles(incidentSysId) is called; the incident is asked for
SuggestStarts ==
    /\ client.state = "ok"
    /\ suggest.pc \in {"idle", "returned", "thrown"}
    /\ suggest.started < MaxSuggestCalls
    /\ suggest' = [NotSuggesting EXCEPT !.pc = "getIncident",
                                        !.started = suggest.started + 1,
                                        !.marked = suggest.marked]
    /\ UNCHANGED retryVars
    /\ UNCHANGED <<config, client, call, net, response, queryProbe, calls, alone, server>>

\* lines 57-96: the incident query resolves; up to the kb_knowledge query
IncidentFetched ==
    /\ suggest.pc = "getIncident"
    /\ LET result == IF server.incident = {} THEN <<>> ELSE <<The(server.incident)>>
       IN  IF Len(result) = 0
           THEN suggest' = [suggest EXCEPT !.pc = "returned", !.returned = Some(<<>>)]
           ELSE LET incident   == result[1]
                    searchText == incident.short_description
                                  \o (IF incident.description = {} THEN <<>>
                                      ELSE The(incident.description))
                    keywords   == extractKeywords(searchText)
                    query      == buildKBQuery(keywords)
                IN  IF searchText = <<>> \/ Len(keywords) = 0 \/ query = <<>>
                    THEN suggest' = [suggest EXCEPT !.pc = "returned",
                                                    !.returned = Some(<<>>),
                                                    !.keywords = keywords]
                    ELSE suggest' = [suggest EXCEPT !.pc = "queryKb",
                                                    !.keywords = keywords,
                                                    !.query = <<"active=true^">> \o query]
    /\ UNCHANGED retryVars
    /\ UNCHANGED <<config, client, call, net, response, queryProbe, calls, alone, server>>

\* lines 96-113: the kb_knowledge query resolves; the incident is asked for again
KbQueried(articles) ==
    /\ suggest.pc = "queryKb"
    /\ suggest' = [suggest EXCEPT !.pc = "getNotes", !.kbResult = articles]
    /\ UNCHANGED retryVars
    /\ UNCHANGED <<config, client, call, net, response, queryProbe, calls, alone, server>>

\* lines 105-134: the second incident query resolves; up to the PATCH
NotesFetched ==
    /\ suggest.pc = "getNotes"
    /\ LET result == IF server.incident = {} THEN <<>> ELSE <<The(server.incident)>>
       IN  IF Len(result) > 0
           THEN LET incident == result[1]
                IN  IF incident.u_cursor_suggested # {}
                    THEN suggest' = [suggest EXCEPT
                                        !.pc = "patch",
                                        !.patchBody = [u_cursor_suggested |-> TRUE]]
                    ELSE LET existingNotes == IF incident.work_notes = {} THEN <<>>
                                              ELSE The(incident.work_notes)
                         IN  suggest' = [suggest EXCEPT
                                            !.pc = "patch",
                                            !.patchBody =
                                                [work_notes |-> UpdatedNotes(existingNotes)]]
           ELSE suggest' = [suggest EXCEPT !.pc = "returned",
                                           !.returned = Some(suggest.kbResult)]
    /\ UNCHANGED retryVars
    /\ UNCHANGED <<config, client, call, net, response, queryProbe, calls, alone, server>>

\* the remote table applies a PATCH: the fields of the body are written
ApplyPatch(incident, body) ==
    IF "work_notes" \in DOMAIN body
    THEN [incident EXCEPT !.work_notes = Some(body.work_notes)]
    ELSE [incident EXCEPT !.u_cursor_suggested = Some(body.u_cursor_suggested)]

\* lines 121-124, 132-135 and 143-144: the PATCH resolves; the articles are returned
PatchSucceeds ==
    /\ suggest.pc = "patch"
    /\ server.incident # {}
    /\ server' = [incident |-> Some(ApplyPatch(The(server.incident), suggest.patchBody))]
    /\ suggest' = [suggest EXCEPT !.pc = "returned", !.returned = Some(suggest.kbResult),
                                  !.marked = suggest.marked + 1]
    /\ UNCHANGED retryVars
    /\ UNCHANGED <<config, client, call, net, response, queryProbe, calls, alone>>

\* lines 145-148: the incident query or the kb_knowledge query rejects
SuggestCallFails(error) ==
    /\ suggest.pc \in {"getIncident", "queryKb"}
    /\ suggest' = [suggest EXCEPT !.pc = "thrown", !.thrown = Some(error)]
    /\ UNCHANGED retryVars
    /\ UNCHANGED <<config, client, call, net, response, queryProbe, calls, alone, server>>

\* lines 138-144: the second incident query or the PATCH rejects; a PATCH that
\* fails with no response may have reached the table all the same
MarkFails(error, applied) ==
    /\ suggest.pc \in {"getNotes", "patch"}
    /\ applied => (suggest.pc = "patch" /\ error = TransportError /\ server.incident # {})
    /\ server' = IF applied
                 THEN [incident |->
                          Some(ApplyPatch(The(server.incident), suggest.patchBody))]
                 ELSE server
    /\ suggest' = AfterMarkFailure(suggest, error)
    /\ UNCHANGED retryVars
    /\ UNCHANGED <<config, client, call, net, response, queryProbe, calls, alone>>

NextSuggest ==
    \/ SuggestStarts
    \/ IncidentFetched
    \/ \E articles \in KbResults : KbQueried(articles)
    \/ NotesFetched
    \/ PatchSucceeds
    \/ \E error \in ClientFailures : SuggestCallFails(error)
    \/ \E error \in ClientFailures, applied \in BOOLEAN : MarkFails(error, applied)

SpecSuggest == InitSuggest /\ [][NextSuggest]_vars

-----------------------------------------------------------------------------
(* Properties *)

IsRetryableCode(s) == s = 429 \/ s \in 500..599

\* the status code an error object carries, as statusCode or else as status
StatusOf(error) == IF error.statusCode # {} THEN error.statusCode ELSE error.status

\* the status code of the error the most recent invocation raised ({} if none)
FnErrorStatus == IF fnError = {} THEN {} ELSE StatusOf(The(fnError))

\* C1: for every status code s, shouldRetry(s) is true exactly when s = 429 or
\* 500 <= s <= 599; in particular it is false on every other code of 400..499.
C1_ShouldRetryExact ==
    probe # <<>> =>
        /\ probe[2] <=> (probe[1] = 429 \/ (500 <= probe[1] /\ probe[1] <= 599))
        /\ (probe[1] \in 400..499 /\ probe[1] # 429) => ~probe[2]

C1_Witness == probe = <<499, FALSE>>

\* C2: an operation that fails on every invocation with a retryable status and no
\* wait hint is invoked exactly maxAttempts times (5 under the default policy),
\* then withRetry fails; there is never one invocation more.
C2_ExactlyMaxAttempts ==
    /\ options.maxAttempts = {} => opts.maxAttempts = 5
    /\ invocations <= opts.maxAttempts
    /\ onlyRetryableStatus =>
          /\ pc # "returned"
          /\ pc = "thrown" <=> invocations = opts.maxAttempts

C2_Witness ==
    /\ options.maxAttempts = {}
    /\ onlyRetryableStatus
    /\ pc = "thrown"
    /\ invocations = 5

\* C3: when an invocation fails with a 4xx status other than 429, withRetry throws
\* that same error at once: no delay, no further invocation, whatever budget is
\* left, and the error thrown is the one raised (status and body unchanged).
C3_ClientErrorPropagates ==
    (/\ fnOutcome = "err"
     /\ FnErrorStatus # {}
     /\ The(FnErrorStatus) \in 400..499
     /\ The(FnErrorStatus) # 429)
    => /\ pc = "thrown"
       /\ thrown = fnError
       /\ delay = {}
       /\ delays = invocations - 1

C3_Witness ==
    /\ pc = "thrown"
    /\ invocations = 1
    /\ opts.maxAttempts = 5
    /\ fnError # {}
    /\ The(fnError).statusCode = Some(404)
    /\ The(thrown).response = "{error}"

\* C4: when a non-final attempt fails with statusCode 429 and the error carries a
\* wait hint of r seconds, the delay before the next attempt is exactly r * 1000
\* ms: no jitter, whatever jitterPercent, baseDelayMs, factor and the attempt are.
C4_RetryAfterExact ==
    (/\ pc = "sleep"
     /\ The(fnError).statusCode = Some(429)
     /\ The(fnError).retryAfter # {})
    => delay = Some(The(The(fnError).retryAfter) * 1000 * Scale)

C4_Witness ==
    /\ pc = "sleep"
    /\ attempt = 2
    /\ opts.jitterPercent = 150
    /\ The(fnError).statusCode = Some(429)
    /\ The(fnError).retryAfter = Some(2)
    /\ delay = Some(2000 * Scale)

RetryPending == pc = "sleep" \/ (pc = "invoke" /\ invocations >= 1)

C7_CancellationNeverRetried ==
    (fnOutcome = "err" /\ The(fnError).name = "AbortError")
    => (pc = "thrown" /\ delay = {})

\* C8: a delay is computed and waited only between two attempts: a pending delay
\* follows failed attempt k < maxAttempts and is followed by attempt k + 1, and
\* after the failure of attempt maxAttempts no delay is computed or waited.
C8_DelayOnlyBetweenAttempts ==
    /\ [](/\ pc = "sleep" =>
                /\ fnOutcome = "err"
                /\ attempt < opts.maxAttempts
                /\ invocations = attempt
                /\ delays = attempt
                /\ delay # {}
          /\ pc # "sleep" => delay = {}
          /\ pc = "invoke" => (invocations = attempt - 1 /\ delays = attempt - 1)
          /\ pc \in {"thrown", "returned"} => delays = invocations - 1)
    /\ [][pc = "sleep" =>
            /\ pc' = "invoke"
            /\ attempt' = attempt + 1
            /\ invocations' = invocations]_vars

C8_Witness ==
    /\ pc = "thrown"
    /\ opts.maxAttempts = 5
    /\ invocations = 5
    /\ delays = 4
    /\ delay = {}

\* C9: when withRetry fails, the error it throws is exactly the error raised by
\* the most recent invocation of the operation, unwrapped and unmodified.
C9_ThrowsMostRecentError ==
    pc = "thrown" => (fnOutcome = "err" /\ thrown = fnError)

C9_Witness ==
    /\ pc = "thrown"
    /\ invocations = 3
    /\ thrown = fnError
    /\ The(thrown).statusCode = Some(503)

\* C10: as soon as an invocation succeeds withRetry returns that invocation's
\* value: no invocation and no delay follow, and an operation that succeeds at
\* once is invoked exactly once with zero delays.
C10_SuccessReturnsAtOnce ==
    /\ fnOutcome = "ok" =>
          /\ pc = "returned"
          /\ returned = fnValue
          /\ invocations = attempt
          /\ delay = {}
          /\ delays = invocations - 1
    /\ pc = "returned" => fnOutcome = "ok"
    /\ (pc = "returned" /\ attempt = 1) => (invocations = 1 /\ delays = 0)

C10_Witness ==
    /\ pc = "returned"
    /\ attempt = 1
    /\ invocations = 1
    /\ delays = 0
    /\ returned = Some("v2")

\* the call runs under the default policy: no option was given
DefaultPolicy == options = [k \in DOMAIN DEFAULT_OPTIONS |-> {}]

\* d (in 1/Scale ms) lies within base * [1 - jitterPercent/100, 1 + jitterPercent/100]
WithinJitterBand(d, base, jitterPercent) ==
    /\ base * (100 - jitterPercent) * RandDen <= d
    /\ d <= base * (100 + jitterPercent) * RandDen

\* C11: with maxAttempts = 1 the operation is invoked exactly once and no delay
\* occurs, whatever error the invocation raises (retryable status, other status,
\* no status at all).
C11_SingleAttemptNoRetry ==
    opts.maxAttempts = 1 =>
        /\ invocations <= 1
        /\ delays = 0
        /\ delay = {}
        /\ pc # "sleep"
        /\ fnOutcome = "err" => (pc = "thrown" /\ invocations = 1 /\ thrown = fnError)

C11_Witness ==
    /\ opts.maxAttempts = 1
    /\ pc = "thrown"
    /\ invocations = 1
    /\ delays = 0
    /\ FnErrorStatus = Some(503)

\* C12 as stated: under the default policy, with every invocation failing with a
\* retryable status and no wait hint, the delay waited before attempt n (n in
\* 2..5) lies within baseDelayMs * factor^(n-1) * [1 - jitterPercent/100,
\* 1 + jitterPercent/100], n being the attempt the delay precedes.
C12_DelayBandByNextAttempt ==
    (DefaultPolicy /\ onlyRetryableStatus /\ pc = "sleep")
    => LET n == attempt + 1
       IN  /\ n \in 2..5
           /\ WithinJitterBand(The(delay),
                               opts.baseDelayMs * Pow(opts.factor, n - 1),
                               opts.jitterPercent)

\* C12 as amended: under the same conditions the delay waited before attempt n
\* (n in 2..5) lies within baseDelayMs * factor^(n-2) * [1 - jitterPercent/100,
\* 1 + jitterPercent/100]: the exponent counts from the failed attempt n - 1.
C12_DelayBandByFailedAttempt ==
    (DefaultPolicy /\ onlyRetryableStatus /\ pc = "sleep")
    => LET n == attempt + 1
       IN  /\ n \in 2..5
           /\ WithinJitterBand(The(delay),
                               opts.baseDelayMs * Pow(opts.factor, n - 2),
                               opts.jitterPercent)

C12_Witness ==
    /\ DefaultPolicy
    /\ onlyRetryableStatus
    /\ pc = "sleep"
    /\ attempt = 4
    /\ delay = Some(4000 * (100 - 15) * RandDen)

QueryKeys ==
    <<"sysparm_fields=", "sysparm_limit=", "sysparm_offset=", "sysparm_query=",
      "sysparm_display_value=">>

IsQueryKey(piece) == \E i \in 1..Len(QueryKeys) : QueryKeys[i] = piece

QueryKeyIndex(piece) == CHOOSE i \in 1..Len(QueryKeys) : QueryKeys[i] = piece

\* the params {limit: 10, filter: "a>b"} and the query string expected for them
ExampleParams ==
    [sysparm_fields |-> {}, sysparm_limit |-> Some(10), sysparm_offset |-> {},
     sysparm_query |-> Some(<<"a", ">", "b">>), sysparm_display_value |-> {}]

ExampleQueryString ==
    <<"?", "sysparm_limit=", "1", "0", "&", "sysparm_query=", "a", "%3E", "b", "&",
      "sysparm_display_value=", "false">>

\* C14: constructing a client in oauth mode with the client id or secret missing,
\* in apiKey mode with the key missing, or with an unrecognized mode fails at
\* construction, and no HTTP call is ever issued by that failed construction.
C14_MissingCredentialFailsConstruction ==
    (/\ client.state # "none"
     /\ \/ /\ config.AUTH_MODE = "oauth"
           /\ \/ Falsy(config.SERVICE_NOW_CLIENT_ID)
              \/ Falsy(config.SERVICE_NOW_CLIENT_SECRET)
        \/ config.AUTH_MODE = "apiKey" /\ Falsy(config.SERVICE_NOW_API_KEY)
        \/ config.AUTH_MODE \notin {"basic", "oauth", "apiKey"})
    => /\ client.state = "failed"
       /\ net.httpCalls = 0
       /\ net.sent = {}
       /\ call = {}
       /\ pc = "idle"

C14_Witness ==
    /\ config.AUTH_MODE = "oauth"
    /\ config.SERVICE_NOW_CLIENT_SECRET = {}
    /\ client.state = "failed"
    /\ net.httpCalls = 0

\* C15 as stated: for every auth mode, basic included, building the auth header
\* fails whenever a credential the mode requires is absent; no header is ever
\* produced from an absent credential.
C15_AbsentCredentialAlwaysFails ==
    (/\ client.state # "none"
     /\ config.AUTH_MODE \in {"basic", "oauth", "apiKey"}
     /\ \E k \in ModeCredentials[config.AUTH_MODE] : config[k] = {})
    => client.state = "failed"

\* C16: the Authorization header and base URL of a client are fixed at
\* construction: no call, attempt or retry changes them, and every HTTP attempt of
\* every call sends the Authorization value computed at construction.
C16_HeaderFixedAtConstruction ==
    /\ [](client.state = "ok" => net.sent \subseteq {client.authHeader})
    /\ [][client.state = "ok" =>
            /\ client'.state = "ok"
            /\ client'.authHeader = client.authHeader
            /\ client'.instanceUrl = client.instanceUrl]_vars
    /\ [][client.state = "none" /\ client'.state = "ok" =>
            /\ client'.authHeader.text \in
                  {<<"user", ":", "password">>, <<"undefined", ":", "password">>,
                   <<"user", ":", "undefined">>, <<"id", ":", "secret">>, <<"key">>}
            /\ client'.instanceUrl = <<"https://dev.service-now.com">>]_vars

C16_Witness ==
    /\ client.state = "ok"
    /\ config.AUTH_MODE = "apiKey"
    /\ config.SERVICE_NOW_API_KEY = Some("rotated")
    /\ net.httpCalls = 5
    /\ net.sent = {PlainHeader("Bearer", <<"key">>)}

\* C17: calls running concurrently on one shared client are independent: under
\* every interleaving of their attempts and backoff waits each call has its own
\* attempt counter and last error, makes at most maxAttempts attempts, and ends
\* with the outcome it would have had if run alone against the same responses.
C17_ConcurrentCallsIndependent ==
    calls # <<>> =>
        \A c \in Calls :
            /\ calls[c].attempt = alone[c].attempt
            /\ calls[c].lastError = alone[c].lastError
            /\ calls[c].invocations <= 5
            /\ calls[c].attempt <= 5
            /\ calls[c].invocations \in {calls[c].attempt - 1, calls[c].attempt}
            /\ calls[c].pc = alone[c].pc
            /\ calls[c].returned = alone[c].returned
            /\ calls[c].thrown = alone[c].thrown

C17_Witness ==
    /\ calls # <<>>
    /\ calls["c1"].pc = "thrown"
    /\ calls["c1"].invocations = 5
    /\ StatusOf(The(calls["c1"].thrown)) = Some(503)
    /\ calls["c2"].pc = "returned"
    /\ calls["c2"].invocations = 3
    /\ calls["c2"].lastError = Some(TransportError)
    /\ net.httpCalls = 8

\* C18: the four client operations go through the same retrying path with the
\* default policy: each attempt issues exactly one HTTP call, a retryable failure
\* of any of the four is retried, and one operation issues at most 5 HTTP calls.
C18_AllOperationsRetryAlike ==
    call # {} =>
        /\ The(call).method \in {"GET", "POST", "PATCH", "DELETE"}
        /\ opts = DEFAULT_OPTIONS
        /\ net.httpCalls = invocations
        /\ net.httpCalls <= 5
        /\ (/\ fnOutcome = "err"
            /\ FnErrorStatus = {} \/ IsRetryableCode(The(FnErrorStatus))
            /\ invocations < 5)
           => pc \in {"sleep", "invoke"}
        /\ pc = "thrown" =>
              \/ net.httpCalls = 5
              \/ FnErrorStatus # {} /\ ~IsRetryableCode(The(FnErrorStatus))

C18_Witness ==
    /\ call # {}
    /\ The(call).method = "DELETE"
    /\ pc = "thrown"
    /\ net.httpCalls = 5
    /\ FnErrorStatus = Some(503)

\* C19: buildQueryString emits its tokens in the fixed order sysparm_fields,
\* sysparm_limit, sysparm_offset, sysparm_query, sysparm_display_value, includes
\* sysparm_display_value in every output (false when the parameter is absent),
\* never returns the empty string, and for {limit: 10, filter: "a>b"} yields
\* exactly ?sysparm_limit=10&sysparm_query=a%3Eb&sysparm_display_value=false.
C19_QueryStringOrder ==
    queryProbe # <<>> =>
        LET params == queryProbe[1]
            out    == queryProbe[2]
            keys   == SelectSeq(out, IsQueryKey)
        IN  /\ out # <<>>
            /\ out[1] = "?"
            /\ \A i, j \in 1..Len(keys) :
                  i < j => QueryKeyIndex(keys[i]) < QueryKeyIndex(keys[j])
            /\ keys # <<>>
            /\ keys[Len(keys)] = "sysparm_display_value="
            /\ out[Len(out) - 1] = "sysparm_display_value="
            /\ params.sysparm_display_value = {} => out[Len(out)] = "false"
            /\ params = ExampleParams => out = ExampleQueryString

C19_Witness ==
    /\ queryProbe # <<>>
    /\ queryProbe[1] = ExampleParams
    /\ queryProbe[2] = ExampleQueryString

\* text that is a decimal integer: an optional sign and then digits only
IsNumericText(str) ==
    LET unsigned == IF str # <<>> /\ Head(str) \in {"-", "+"} THEN Tail(str) ELSE str
    IN  /\ unsigned # <<>>
        /\ \A i \in 1..Len(unsigned) : IsDigit(unsigned[i])

\* C20 as stated: for a response with status outside 200..299 one attempt raises
\* an error carrying that status and the parsed body, and the error carries a wait
\* hint if and only if the response has a Retry-After header whose value is
\* numeric; a non-numeric or absent header leaves the wait hint unset.
C20_WaitHintIffNumericHeader ==
    (/\ response # {}
     /\ The(response).status \notin 200..299)
    => /\ fnOutcome = "err"
       /\ The(fnError).statusCode = Some(The(response).status)
       /\ The(fnError).response =
             (IF The(response).body.json THEN The(response).body.text ELSE "{}")
       /\ The(fnError).retryAfter # {}
             <=> /\ The(response).retryAfter # {}
                 /\ IsNumericText(The(The(response).retryAfter))

\* C21: a response body that cannot be parsed as JSON is replaced by an empty
\* object and never causes a failure by itself: with a 2xx status the call succeeds
\* with the empty object and no retry, with another status the error raised carries
\* that status and an empty-object body.
C21_UnparsableBodyIsEmptyObject ==
    (response # {} /\ ~The(response).body.json) =>
        IF The(response).status \in 200..299
        THEN /\ fnOutcome = "ok"
             /\ fnValue = Some("{}")
             /\ pc = "returned"
             /\ returned = Some("{}")
             /\ delay = {}
        ELSE /\ fnOutcome = "err"
             /\ The(fnError).statusCode = Some(The(response).status)
             /\ The(fnError).response = "{}"

C21_Witness ==
    /\ response # {}
    /\ The(response).status = 200
    /\ The(response).body = [json |-> FALSE, text |-> ""]
    /\ pc = "returned"
    /\ returned = Some("{}")
    /\ invocations = 1

\* the credentials the configuration holds or held when the header was built
RawCredentials ==
    UNION {cfg[k] : cfg \in {config, FullConfig},
                    k \in {"SERVICE_NOW_USER", "SERVICE_NOW_PASSWORD", "SERVICE_NOW_CLIENT_ID",
                           "SERVICE_NOW_CLIENT_SECRET", "SERVICE_NOW_API_KEY"}}
    \ {""}

\* text holds a raw credential, or the credentials text of the Authorization header
HoldsSecret(text) ==
    \/ \E i \in 1..Len(text) : text[i] \in RawCredentials
    \/ \E i \in 1..Len(text) :
          /\ i + Len(client.authHeader.text) - 1 <= Len(text)
          /\ SubSeq(text, i, i + Len(client.authHeader.text) - 1) = client.authHeader.text

\* every text of a log payload: the message and the strings of the meta object
LogTexts(log) ==
    {log.message, log.meta.table}
    \cup (IF "sysId" \in DOMAIN log.meta THEN {log.meta.sysId} ELSE {})
    \cup (IF "payload" \in DOMAIN log.meta
          THEN {log.meta.payload[k] : k \in DOMAIN log.meta.payload} ELSE {})
    \cup (IF "params" \in DOMAIN log.meta
          THEN log.meta.params.sysparm_fields \cup log.meta.params.sysparm_query ELSE {})

\* C22: no error raised and no log payload produced by the client (the error's
\* message, statusCode, response and retryAfter; the debug log's URL, table, params
\* and payload) contains the Authorization header value or the raw credentials.
C22_NoSecretInErrorsOrLogs ==
    /\ (call # {} /\ client.state = "ok") =>
          \A text \in LogTexts(The(call).log) \cup {The(call).url} : ~HoldsSecret(text)
    /\ (call # {} /\ fnError # {}) =>
          /\ ~HoldsSecret(The(fnError).message)
          /\ The(fnError).response \notin RawCredentials
          /\ The(fnError).statusCode \subseteq 0..999
          /\ The(fnError).retryAfter \subseteq Int
    /\ (call # {} /\ thrown # {}) => ~HoldsSecret(The(thrown).message)

C22_Witness ==
    /\ call # {}
    /\ The(call).method = "POST"
    /\ The(call).log.meta.payload["password"] = <<"***REDACTED***">>
    /\ client.authHeader.text = <<"user", ":", "password">>
    /\ pc = "thrown"
    /\ The(thrown).message = <<"ServiceNow API error: ", "4", "0", "4", " ", "reason">>

\* the 429 wait hint applies to the error the most recent invocation raised
HintApplies ==
    /\ fnError # {}
    /\ The(fnError).statusCode = Some(429)
    /\ The(fnError).retryAfter # {}

\* C23: with jitterPercent = 0 the backoff is deterministic: after failed attempt
\* k < maxAttempts with no applicable 429 wait hint the delay is exactly
\* baseDelayMs * factor^(k-1): 500, 1000, 2000, 4000 ms for k = 1..4 under the
\* other defaults.
C23_ZeroJitterExactBackoff ==
    (opts.jitterPercent = 0 /\ pc = "sleep" /\ ~HintApplies) =>
        /\ attempt < opts.maxAttempts
        /\ delay = Some(opts.baseDelayMs * Pow(opts.factor, attempt - 1) * Scale)
        /\ (opts.baseDelayMs = 500 /\ opts.factor = 2) =>
              delay = Some(<<500, 1000, 2000, 4000>>[attempt] * Scale)

C23_Witness ==
    /\ options = [maxAttempts |-> {}, baseDelayMs |-> {}, factor |-> {},
                  jitterPercent |-> Some(0)]
    /\ pc = "sleep"
    /\ attempt = 4
    /\ ~HintApplies
    /\ delay = Some(4000 * Scale)

\* C24: the wait hint overrides backoff only for status 429: when a non-final
\* attempt fails with a 5xx status or with no status and the error nevertheless
\* carries a wait hint, the hint is ignored and the delay is the jittered
\* exponential backoff of that attempt.
C24_HintIgnoredUnless429 ==
    (/\ pc = "sleep"
     /\ The(fnError).retryAfter # {}
     /\ FnErrorStatus = {} \/ The(FnErrorStatus) \in 500..599)
    => WithinJitterBand(The(delay), opts.baseDelayMs * Pow(opts.factor, attempt - 1),
                        opts.jitterPercent)

C24_Witness ==
    /\ DefaultPolicy
    /\ pc = "sleep"
    /\ attempt = 1
    /\ The(fnError).statusCode = Some(503)
    /\ The(fnError).retryAfter = Some(2)
    /\ delay = Some(500 * (100 - 15) * RandDen)

\* C25 as stated: every delay withRetry passes to the inter-attempt wait is
\* non-negative, for every policy and every error the operation can raise,
\* including a 429 error whose wait hint was parsed from a Retry-After header
\* holding a negative integer.
C25_DelayNeverNegative ==
    delay # {} => The(delay) >= 0

\* C26: for any maxAttempts >= 1 and any sequence of operation outcomes, withRetry
\* terminates, provided each invocation and each timer wait completes, after at
\* least 1 and at most maxAttempts invocations and at most maxAttempts - 1 delays,
\* ending either with a success value or with a raised error.
C26_Terminates ==
    /\ <>(pc \in {"returned", "thrown"})
    /\ [](/\ invocations <= opts.maxAttempts
          /\ delays <= opts.maxAttempts - 1
          /\ pc = "returned" => (invocations >= 1 /\ returned # {} /\ thrown = {})
          /\ pc = "thrown" => (invocations >= 1 /\ thrown # {} /\ returned = {}))
    /\ [][pc \notin {"returned", "thrown"}]_vars

C26_Witness ==
    /\ opts.maxAttempts = 3
    /\ pc = "returned"
    /\ invocations = 3
    /\ delays = 2
    /\ returned = fnValue

\* C27: a status-bearing error whose code is neither 429 nor in 500..599 is never
\* retried even when it is not a 4xx: a response with a 1xx or 3xx status, or a
\* code >= 600, ends the call after that single attempt with no delay.
C27_OtherStatusesNeverRetried ==
    (/\ response # {}
     /\ \/ The(response).status \in 100..199
        \/ The(response).status \in 300..399
        \/ The(response).status >= 600)
    => /\ fnOutcome = "err"
       /\ FnErrorStatus = Some(The(response).status)
       /\ pc = "thrown"
       /\ thrown = fnError
       /\ delay = {}
       /\ net.httpCalls = invocations
       /\ delays = invocations - 1

C27_Witness ==
    /\ response # {}
    /\ The(response).status = 600
    /\ pc = "thrown"
    /\ invocations = 1
    /\ net.httpCalls = 1
    /\ delays = 0

\* the key is among the tokens of the query string
EmitsKey(out, key) == \E i \in 1..Len(out) : out[i] = key

\* C28 as stated: buildQueryString emits a field exactly when it is present:
\* sysparm_limit and sysparm_offset for every supplied value including 0, and
\* sysparm_fields and sysparm_query for every supplied string including the empty
\* string.
C28_EmittedExactlyWhenPresent ==
    queryProbe # <<>> =>
        LET params == queryProbe[1]
            out    == queryProbe[2]
        IN  /\ EmitsKey(out, "sysparm_limit=") <=> params.sysparm_limit # {}
            /\ EmitsKey(out, "sysparm_offset=") <=> params.sysparm_offset # {}
            /\ EmitsKey(out, "sysparm_fields=") <=> params.sysparm_fields # {}
            /\ EmitsKey(out, "sysparm_query=") <=> params.sysparm_query # {}

\* C29: in suggestArticles a failure while marking the incident (the second
\* incident fetch or the PATCH failing) does not fail the operation: the KB articles
\* found by the earlier KB query are still returned, whereas a failure of the first
\* incident fetch or of the KB query is propagated to the caller.
C29_MarkFailureNotPropagated ==
    /\ [](suggest # <<>> =>
            /\ suggest.markError # {} =>
                  /\ suggest.pc = "returned"
                  /\ suggest.returned = Some(suggest.kbResult)
                  /\ suggest.thrown = {}
            /\ suggest.pc = "thrown" =>
                  /\ suggest.thrown # {}
                  /\ suggest.returned = {}
                  /\ suggest.markError = {}
                  /\ suggest.patchBody = <<>>)
    /\ [][suggest.pc \in {"getNotes", "patch"} =>
            /\ suggest'.pc \in {"patch", "returned"}
            /\ suggest'.pc = "returned" => suggest'.returned = Some(suggest.kbResult)]_vars
    /\ [][(suggest.pc \in {"getIncident", "queryKb"} /\ suggest'.thrown # {}) =>
            /\ suggest'.pc = "thrown"
            /\ suggest'.returned = {}]_vars

C29_Witness ==
    /\ suggest # <<>>
    /\ suggest.pc = "returned"
    /\ suggest.markError = Some(TransportError)
    /\ "work_notes" \in DOMAIN suggest.patchBody
    /\ suggest.kbResult = <<"KB1", "KB2">>
    /\ suggest.returned = Some(<<"KB1", "KB2">>)

\* the work notes the remote table holds for the incident ("" when it has none)
StoredNotes ==
    IF server.incident = {} \/ The(server.incident).work_notes = {} THEN <<>>
    ELSE The(The(server.incident).work_notes)

\* the number of times the marker occurs in notes
MarkerCount(notes) == Cardinality({i \in 1..Len(notes) : notes[i] = Marker})

\* the incident is marked through its work notes: it has no u_cursor_suggested field
WorkNotesFallback ==
    /\ server # <<>>
    /\ server.incident # {}
    /\ The(server.incident).u_cursor_suggested = {}

\* C30: marking an incident through the work_notes fallback is idempotent: when
\* the existing notes hold the marker already the PATCH writes them unchanged, so
\* after any number of suggestArticles calls that marked the incident the notes
\* hold the marker exactly once.
C30_MarkingIdempotent ==
    /\ [](WorkNotesFallback =>
            /\ MarkerCount(StoredNotes) <= 1
            /\ suggest.marked >= 1 => MarkerCount(StoredNotes) = 1
            /\ (suggest.pc = "patch" /\ IncludesMarker(StoredNotes)) =>
                  suggest.patchBody = [work_notes |-> StoredNotes])
    /\ [][(WorkNotesFallback /\ MarkerCount(StoredNotes) = 1) =>
            StoredNotes' = StoredNotes]_vars

C30_Witness ==
    /\ WorkNotesFallback
    /\ suggest.started = 3
    /\ suggest.marked = 3
    /\ suggest.pc = "returned"
    /\ StoredNotes = <<"rebooted", "\n", Marker>>

====
